---- MODULE Spec2Model ----
(***************************************************************************)
(* Verification model of the overseer probe layer and enqueue command:     *)
(*   - the enqueue sub-command (src/unnamed/part_001, and its earlier      *)
(*     revision src/unnamed/part_000),                                     *)
(*   - the DNS prober and the IMAPS prober (src/protocols/dns_probe.go).   *)
(* Strings whose characters matter are sequences of one-character strings; *)
(* strings that are only copied or compared whole are TLA+ strings.        *)
(***************************************************************************)
EXTENDS Integers, Sequences, FiniteSets, TLC

VARIABLES
    \* ---- enqueue sub-command
    variant,      \* which revision of Execute runs: "part_000" or "part_001"
    args,         \* f.Args(): the positional arguments, a sequence of file names
    fs,           \* file name -> content (a sequence of lines) or Unreadable
    epc,          \* position of Execute
    fileIdx,      \* index in args of the file of the current loop iteration
    lineIdx,      \* index of the next line ParseFile reads in the current file
    pingLog,      \* results of the Ping calls issued so far
    openLog,      \* indices in args of the files ParseFile was called on
    fileResult,   \* index in args -> "none" | "running" | "ok" | "error"
    rpushLog,     \* the RPush calls issued so far
    queue,        \* the redis list overseer.jobs
    exitStatus,   \* value returned by Execute, "none" while running
    \* ---- DNS prober
    dnsProcs,     \* the goroutines that call DNSTest.RunTest
    localm,       \* package variable localm: a message id, 0 for nil
    localc,       \* package variable localc: a client id, 0 for nil
    msgs,         \* heap: message id -> its question
    clients,      \* heap: client id -> its ReadTimeout
    dpc,          \* goroutine -> position in RunTest
    dtst,         \* goroutine -> arguments of its RunTest call
    dclient,      \* goroutine -> the client its Exchange call was made on
    dsent,        \* goroutine -> what its Exchange sent, NotSent before
    dresp,        \* goroutine -> what its Exchange returned
    dlookup,      \* goroutine -> what its lookup returned
    dret,         \* goroutine -> what its RunTest returned, Running before
    \* ---- IMAPS prober
    ipc,          \* position in IMAPSTest.RunTest
    itst,         \* the test, target and options of the current RunTest call
    iport,        \* local variable port
    iaddress,     \* local variable address
    itls,         \* local variable tlsSetup
    ilog,         \* network operations of the current call, in order
    iret,         \* what the current call returned, Running before
    icalls,       \* RunTest calls started so far
    openConns,    \* connections dialled by RunTest and not yet closed
    \* ---- enqueue sub-command, flag setup
    fpc,          \* position: before SetFlags, flags registered, command line parsed
    env,          \* the environment variable OVERSEER, "" when unset
    cfgFile,      \* the file OVERSEER names
    cmdline,      \* the flags given on the command line
    cmd,          \* the fields of the enqueueCmd the flags are bound to
    registered,   \* names of the flags registered in the flag set
    warnings      \* the warnings printed so far

enqVars == <<variant, args, fs, epc, fileIdx, lineIdx, pingLog, openLog,
             fileResult, rpushLog, queue, exitStatus>>

dnsVars == <<dnsProcs, localm, localc, msgs, clients, dpc, dtst, dclient,
             dsent, dresp, dlookup, dret>>

imapsVars == <<ipc, itst, iport, iaddress, itls, ilog, iret, icalls, openConns>>

flagVars == <<fpc, env, cfgFile, cmdline, cmd, registered, warnings>>

vars == <<enqVars, dnsVars, imapsVars, flagVars>>

(***************************************************************************)
(* Generic helpers                                                         *)
(***************************************************************************)
IsPrefix(s, t) == /\ Len(s) <= Len(t)
                  /\ \A i \in 1..Len(s) : s[i] = t[i]

RECURSIVE SeqsUpTo(_, _)
SeqsUpTo(S, n) ==
    IF n = 0 THEN {<<>>}
    ELSE LET shorter == SeqsUpTo(S, n - 1)
         IN  shorter \cup {Append(s, x) : s \in {t \in shorter : Len(t) = n - 1}, x \in S}

RECURSIVE Flatten(_)
Flatten(ss) == IF ss = <<>> THEN <<>> ELSE Head(ss) \o Flatten(Tail(ss))

SelectIdx(s, P(_)) ==
    LET RECURSIVE go(_)
        go(i) == IF i > Len(s) THEN <<>>
                 ELSE (IF P(s[i]) THEN <<s[i]>> ELSE <<>>) \o go(i + 1)
    IN  go(1)

(***************************************************************************)
(* Strings as sequences of characters                                      *)
(***************************************************************************)
\* The characters the model uses, in ASCII order.
Ascii == <<" ", "+", ",", "-", ".", "0", "1", "2", "3", "4", "5", "6", "7",
           "8", "9", ":", "A", "M", "N", "S", "T", "X", "a", "b", "c", "d",
           "e", "f", "h", "i", "m", "n", "p", "r", "s", "t", "u", "x">>

CharOrd(c) == CHOOSE i \in 1..Len(Ascii) : Ascii[i] = c

\* Go's string comparison: byte-wise lexicographic.
RECURSIVE StrLess(_, _)
StrLess(a, b) ==
    IF b = <<>> THEN FALSE
    ELSE IF a = <<>> THEN TRUE
    ELSE IF Head(a) # Head(b) THEN CharOrd(Head(a)) < CharOrd(Head(b))
    ELSE StrLess(Tail(a), Tail(b))

\* strings.Contains(s, c) for a one-character c.
Contains(s, c) == \E i \in 1..Len(s) : s[i] = c

\* strings.Join
RECURSIVE Join(_, _)
Join(ss, sep) ==
    IF ss = <<>> THEN <<>>
    ELSE IF Len(ss) = 1 THEN ss[1]
    ELSE ss[1] \o sep \o Join(Tail(ss), sep)

\* sort.Strings: the strings in increasing order.
SortStrings_NoSort(ss) == ss

RECURSIVE SortStrings(_)
SortStrings(ss) ==
    IF ss = <<>> THEN <<>>
    ELSE LET m == CHOOSE i \in 1..Len(ss) :
                      \A j \in 1..Len(ss) : ~StrLess(ss[j], ss[i])
             rest == [k \in 1..(Len(ss) - 1) |-> IF k < m THEN ss[k] ELSE ss[k + 1]]
         IN  <<ss[m]>> \o SortStrings(rest)

Digit(d) == <<Ascii[d + 6]>>
HexDigit(d) == IF d < 10 THEN Digit(d) ELSE <<<<"a", "b", "c", "d", "e", "f">>[d - 9]>>

\* %d of a non-negative integer.
RECURSIVE Itoa(_)
Itoa(n) == IF n < 10 THEN Digit(n) ELSE Itoa(n \div 10) \o Digit(n % 10)

\* %d
FormatInt(n) == IF n < 0 THEN <<"-">> \o Itoa(0 - n) ELSE Itoa(n)

\* %x of a non-negative integer.
RECURSIVE Hex(_)
Hex(n) == IF n < 16 THEN HexDigit(n) ELSE Hex(n \div 16) \o HexDigit(n % 16)

(***************************************************************************)
(* Errors: a kind and the strings formatted into the message               *)
(***************************************************************************)
Err(kind, s1, s2) == [kind |-> kind, s1 |-> s1, s2 |-> s2]
NoErr == Err("nil", <<>>, <<>>)
Running == Err("running", <<>>, <<>>)

(***************************************************************************)
(* DNS prober                                                              *)
(***************************************************************************)
MaxAnswers == 2

\* Resource records of an answer section, one shape for all types.
RR(rr, ip, pref, name, txt) == [rr |-> rr, ip |-> ip, pref |-> pref, name |-> name, txt |-> txt]

Records == {
    RR("A",     <<1, 2, 3, 4>>, 0, <<>>, <<>>),
    RR("AAAA",  <<0, 0, 0, 0, 0, 0, 0, 1>>, 0, <<>>, <<>>),
    RR("AAAA",  <<0, 0, 0, 0, 0, 65535, 258, 772>>, 0, <<>>, <<>>),
    RR("MX",    <<>>, 10, <<"m", ".">>, <<>>),
    RR("NS",    <<>>, 0, <<"n", ".">>, <<>>),
    RR("TXT",   <<>>, 0, <<>>, << <<"a">> >>),
    RR("TXT",   <<>>, 0, <<>>, << <<>>, <<"b">> >>),
    RR("CNAME", <<>>, 0, <<"c", ".">>, <<>>) }

TypeTokens == { <<>>, <<"A">>, <<"A", "A", "A", "A">>, <<"M", "X">>, <<"N", "S">>,
                <<"T", "X", "T">>, <<"C", "N", "A", "M", "E">> }

Rcodes == {"RcodeSuccess", "RcodeNameError", "RcodeServerFailure", "RcodeRefused"}

NilMsg == [rcode |-> "nil", answer |-> <<>>]
NotSent == [msg |-> 0, name |-> <<>>, qtype |-> 0, client |-> 0, timeout |-> 0,
            address |-> <<>>]
NoTest == [lookup |-> <<>>, type |-> <<>>, result |-> <<>>, target |-> <<>>, timeout |-> 0]
NoLookup == [results |-> <<>>, err |-> Running]

\* What a goroutine alone is called with, and what the server may answer.
SoloTests ==
    [lookup : {<<>>, <<"a">>, <<"a", ".">>},
     type : TypeTokens,
     result : {<<>>, <<"a">>, <<",", "b">>, <<"1", ".", "2", ".", "3", ".", "4">>,
               <<"1", "0", " ", "m", ".", ",", "n", ".">>},
     target : {<<"n", "s">>, <<":", ":", "1">>, <<":", ":", "1", "%", "e">>},
     timeout : {5}]

SoloExchanges ==
    {[err |-> Err("transport", <<"i", "/", "o">>, <<>>), r |-> NilMsg]}
    \cup {[err |-> NoErr, r |-> [rcode |-> c, answer |-> a]] :
             c \in Rcodes, a \in SeqsUpTo(Records, MaxAnswers)}

\* What two concurrent goroutines are called with.
RaceTests ==
    [lookup : {<<>>, <<"a">>, <<"b">>},
     type : {<<"A">>, <<"M", "X">>, <<"x">>},
     result : {<<>>},
     target : {<<"n", "s">>},
     timeout : {1, 2}]

RaceExchanges ==
    {[err |-> Err("transport", <<"i", "/", "o">>, <<>>), r |-> NilMsg],
     [err |-> NoErr, r |-> [rcode |-> "RcodeSuccess", answer |-> <<>>]]}

Tests == IF Cardinality(dnsProcs) = 1 THEN SoloTests ELSE RaceTests
Exchanges == IF Cardinality(dnsProcs) = 1 THEN SoloExchanges ELSE RaceExchanges

\* dns.Fqdn
Fqdn(s) == IF s # <<>> /\ s[Len(s)] = "." THEN s ELSE s \o <<".">>

\* The map StringToType of localQuery; a missing key reads as 0.
StringToType(t) ==
    CASE t = <<"A">> -> 1
      [] t = <<"A", "A", "A", "A">> -> 28
      [] t = <<"M", "X">> -> 15
      [] t = <<"N", "S">> -> 2
      [] t = <<"T", "X", "T">> -> 16
      [] OTHER -> 0

\* The connection address of localQuery.
DnsAddress(server) ==
    IF Contains(server, ":")
    THEN <<"[">> \o server \o <<"]", ":">> \o FormatInt(53)
    ELSE server \o <<":">> \o FormatInt(53)

\* net.IP.String of a 4-byte address.
IPv4String(b) == Join([i \in 1..4 |-> Itoa(b[i])], <<".">>)

\* net.IP.String of a 16-byte address, given as 8 groups of 16 bits.
IPv6String(g) ==
    LET RECURSIVE ZeroRun(_)
        ZeroRun(i) == IF i > 8 \/ g[i] # 0 THEN 0 ELSE 1 + ZeroRun(i + 1)
        longest == CHOOSE n \in 0..8 :
                      /\ \E i \in 1..8 : ZeroRun(i) = n
                      /\ \A i \in 1..8 : ZeroRun(i) <= n
        e0 == IF longest < 2 THEN 0
              ELSE CHOOSE i \in 1..8 :
                      /\ ZeroRun(i) = longest
                      /\ \A j \in 1..(i - 1) : ZeroRun(j) < longest
        e1 == e0 + longest
        RECURSIVE Emit(_)
        Emit(i) ==
            IF i > 8 THEN <<>>
            ELSE IF i = e0
            THEN <<":", ":">> \o (IF e1 > 8 THEN <<>> ELSE Hex(g[e1]) \o Emit(e1 + 1))
            ELSE (IF i > 1 THEN <<":">> ELSE <<>>) \o Hex(g[i]) \o Emit(i + 1)
    IN  IF (\A i \in 1..5 : g[i] = 0) /\ g[6] = 65535
        THEN IPv4String(<<g[7] \div 256, g[7] % 256, g[8] \div 256, g[8] % 256>>)
        ELSE Emit(1)

\* The type switch of lookup: the strings appended for one answer record.
\* A TXT record holds one or more chunks (RFC 1035), so txt[0] exists.
ExtractOne_All(e) == <<e.name>>

ExtractOne(e) ==
    CASE e.rr = "A"    -> <<IPv4String(e.ip)>>
      [] e.rr = "AAAA" -> <<IPv6String(e.ip)>>
      [] e.rr = "MX"   -> <<FormatInt(e.pref) \o <<" ">> \o e.name>>
      [] e.rr = "NS"   -> <<e.name>>
      [] e.rr = "TXT"  -> <<e.txt[1]>>
      [] OTHER         -> <<>>

\* The loop of lookup over r.Answer.
RECURSIVE Extract(_)
Extract(answer) ==
    IF answer = <<>> THEN <<>> ELSE ExtractOne(Head(answer)) \o Extract(Tail(answer))

\* localQuery after Exchange returned.
LocalQueryReturn_NoFilter(x) ==
    IF x.err # NoErr THEN [r |-> NilMsg, err |-> x.err] ELSE [r |-> x.r, err |-> NoErr]

LocalQueryReturn(x) ==
    IF x.err # NoErr THEN [r |-> NilMsg, err |-> x.err]
    ELSE IF x.r = NilMsg \/ x.r.rcode = "RcodeNameError" \/ x.r.rcode = "RcodeSuccess"
    THEN [r |-> x.r, err |-> NoErr]
    ELSE [r |-> NilMsg, err |-> NoErr]

\* lookup after localQuery returned q.
LookupReturn_NilIsError(name, q) ==
    IF q.err # NoErr THEN [results |-> <<>>, err |-> q.err]
    ELSE IF q.r = NilMsg
    THEN [results |-> <<>>, err |-> Err("no response", Fqdn(name), <<>>)]
    ELSE IF q.r.rcode = "RcodeNameError"
    THEN [results |-> <<>>, err |-> Err("no such domain", Fqdn(name), <<>>)]
    ELSE [results |-> Extract(q.r.answer), err |-> NoErr]

LookupReturn(name, q) ==
    IF q.err # NoErr \/ q.r = NilMsg THEN [results |-> <<>>, err |-> q.err]
    ELSE IF q.r.rcode = "RcodeNameError"
    THEN [results |-> <<>>, err |-> Err("no such domain", Fqdn(name), <<>>)]
    ELSE [results |-> Extract(q.r.answer), err |-> NoErr]

\* RunTest after lookup returned l: sort, join, compare with `result`.
Found(results) == Join(SortStrings(results), <<",">>)

RunTestReturn(result, l) ==
    IF l.err # NoErr THEN l.err
    ELSE IF Found(l.results) # result THEN Err("mismatch", result, Found(l.results))
    ELSE NoErr

IdleDNS ==
    /\ dnsProcs = {}
    /\ localm = 0
    /\ localc = 0
    /\ msgs = <<>>
    /\ clients = <<>>
    /\ dpc = <<>>
    /\ dtst = <<>>
    /\ dclient = <<>>
    /\ dsent = <<>>
    /\ dresp = <<>>
    /\ dlookup = <<>>
    /\ dret = <<>>

InitDNSVars(n) ==
    /\ dnsProcs = 1..n
    /\ localm = 0
    /\ localc = 0
    /\ msgs = [p \in 1..n |-> [name |-> <<>>, qtype |-> 0]]
    /\ clients = [p \in 1..n |-> 0]
    /\ dpc = [p \in 1..n |-> "idle"]
    /\ dtst = [p \in 1..n |-> NoTest]
    /\ dclient = [p \in 1..n |-> 0]
    /\ dsent = [p \in 1..n |-> NotSent]
    /\ dresp = [p \in 1..n |-> [err |-> Running, r |-> NilMsg]]
    /\ dlookup = [p \in 1..n |-> NoLookup]
    /\ dret = [p \in 1..n |-> Running]

\* RunTest up to the call of lookup: the two argument checks.
DnsRunTest(p) ==
    /\ dpc[p] = "idle"
    /\ \E t \in Tests :
          /\ dtst' = [dtst EXCEPT ![p] = t]
          /\ IF t.lookup = <<>>
             THEN /\ dret' = [dret EXCEPT ![p] = Err("no value to lookup specified", <<>>, <<>>)]
                  /\ dpc' = [dpc EXCEPT ![p] = "done"]
             ELSE IF t.type = <<>>
             THEN /\ dret' = [dret EXCEPT ![p] = Err("no record-type to lookup", <<>>, <<>>)]
                  /\ dpc' = [dpc EXCEPT ![p] = "done"]
             ELSE /\ dret' = dret
                  /\ dpc' = [dpc EXCEPT ![p] = "newmsg"]
    /\ UNCHANGED <<dnsProcs, localm, localc, msgs, clients, dclient, dsent, dresp, dlookup>>
    /\ UNCHANGED <<enqVars, imapsVars, flagVars>>

\* lookup: localm = &dns.Msg{...}
DnsNewMsg(p) ==
    /\ dpc[p] = "newmsg"
    /\ msgs' = [msgs EXCEPT ![p] = [name |-> <<>>, qtype |-> 0]]
    /\ localm' = p
    /\ dpc' = [dpc EXCEPT ![p] = "newclient"]
    /\ UNCHANGED <<dnsProcs, localc, clients, dtst, dclient, dsent, dresp, dlookup, dret>>
    /\ UNCHANGED <<enqVars, imapsVars, flagVars>>

\* lookup: localc = &dns.Client{ReadTimeout: timeout}
DnsNewClient(p) ==
    /\ dpc[p] = "newclient"
    /\ clients' = [clients EXCEPT ![p] = dtst[p].timeout]
    /\ localc' = p
    /\ dpc' = [dpc EXCEPT ![p] = "setquestion"]
    /\ UNCHANGED <<dnsProcs, localm, msgs, dtst, dclient, dsent, dresp, dlookup, dret>>
    /\ UNCHANGED <<enqVars, imapsVars, flagVars>>

\* localQuery: the type lookup and localm.SetQuestion(qname, qtype), which
\* writes the message localm points to at this moment.
DnsSetQuestion(p) ==
    /\ dpc[p] = "setquestion"
    /\ LET qtype == StringToType(dtst[p].type)
       IN  IF qtype = 0
           THEN /\ dlookup' = [dlookup EXCEPT ![p] =
                       [results |-> <<>>,
                        err |-> Err("unsupported record to lookup", dtst[p].type, <<>>)]]
                /\ dret' = [dret EXCEPT ![p] =
                       Err("unsupported record to lookup", dtst[p].type, <<>>)]
                /\ dpc' = [dpc EXCEPT ![p] = "done"]
                /\ msgs' = msgs
           ELSE /\ msgs' = [msgs EXCEPT ![localm] =
                       [name |-> Fqdn(dtst[p].lookup), qtype |-> qtype]]
                /\ dpc' = [dpc EXCEPT ![p] = "loadclient"]
                /\ UNCHANGED <<dlookup, dret>>
    /\ UNCHANGED <<dnsProcs, localm, localc, clients, dtst, dclient, dsent, dresp>>
    /\ UNCHANGED <<enqVars, imapsVars, flagVars>>

\* localQuery: the receiver of localc.Exchange is read from localc.
DnsLoadClient(p) ==
    /\ dpc[p] = "loadclient"
    /\ dclient' = [dclient EXCEPT ![p] = localc]
    /\ dpc' = [dpc EXCEPT ![p] = "exchange"]
    /\ UNCHANGED <<dnsProcs, localm, localc, msgs, clients, dtst, dsent, dresp, dlookup, dret>>
    /\ UNCHANGED <<enqVars, imapsVars, flagVars>>

\* localQuery: Exchange sends the message localm points to, and the rest of
\* the call: the response-code filter, the extraction, the comparison.
DnsExchange(p) ==
    /\ dpc[p] = "exchange"
    /\ dsent' = [dsent EXCEPT ![p] =
            [msg |-> localm, name |-> msgs[localm].name, qtype |-> msgs[localm].qtype,
             client |-> dclient[p], timeout |-> clients[dclient[p]],
             address |-> DnsAddress(dtst[p].target)]]
    /\ \E x \in Exchanges :
          LET l == LookupReturn(dtst[p].lookup, LocalQueryReturn(x))
          IN  /\ dresp' = [dresp EXCEPT ![p] = x]
              /\ dlookup' = [dlookup EXCEPT ![p] = l]
              /\ dret' = [dret EXCEPT ![p] = RunTestReturn(dtst[p].result, l)]
    /\ dpc' = [dpc EXCEPT ![p] = "done"]
    /\ UNCHANGED <<dnsProcs, localm, localc, msgs, clients, dtst, dclient>>
    /\ UNCHANGED <<enqVars, imapsVars, flagVars>>

NextDNS ==
    \/ \E p \in dnsProcs : DnsRunTest(p)
    \/ \E p \in dnsProcs : DnsNewMsg(p)
    \/ \E p \in dnsProcs : DnsNewClient(p)
    \/ \E p \in dnsProcs : DnsSetQuestion(p)
    \/ \E p \in dnsProcs : DnsLoadClient(p)
    \/ \E p \in dnsProcs : DnsExchange(p)

(***************************************************************************)
(* IMAPS prober                                                            *)
(***************************************************************************)
MaxCalls == 2

ImapsTests ==
    [port : {<<>>, <<"1", "4", "3">>, <<"x">>, <<"9", "x">>, <<"+", "7">>, <<"-", "7">>,
             <<"9", "9", "9", "9", "9", "9", "9", "9", "9", "9",
               "9", "9", "9", "9", "9", "9", "9", "9", "9", "9">>},
     tls : {<<>>, <<"i", "n", "s", "e", "c", "u", "r", "e">>, <<"x">>},
     username : {<<>>, <<"u">>},
     password : {<<>>, <<"p">>},
     input : {<<>>, <<" ">>, <<"h", " ", "i", "m", "a", "p", "s">>, <<" ", "m">>},
     target : {<<"h">>, <<":", ":", "1">>, <<":", ":", "1", "%", "e">>},
     timeout : {5}]

NoImapsTest == [port |-> <<>>, tls |-> <<>>, username |-> <<>>, password |-> <<>>,
                input |-> <<>>, target |-> <<>>, timeout |-> 0]

NoTLS == [InsecureSkipVerify |-> FALSE, ServerName |-> <<>>]

IsDigit(c) == c \in {"0", "1", "2", "3", "4", "5", "6", "7", "8", "9"}

RECURSIVE DigitsValue(_, _)
DigitsValue(ds, acc) ==
    IF ds = <<>> THEN acc ELSE DigitsValue(Tail(ds), acc * 10 + (CharOrd(Head(ds)) - 6))

RECURSIVE StripZeros(_)
StripZeros(ds) == IF ds # <<>> /\ Head(ds) = "0" THEN StripZeros(Tail(ds)) ELSE ds

MaxInt64Digits == <<"9", "2", "2", "3", "3", "7", "2", "0", "3", "6", "8", "5", "4",
                    "7", "7", "5", "8", "0", "7">>

\* strconv.Atoi: an optional sign and decimal digits, within the range of a
\* 64-bit int. (The magnitude 2^63 of the most negative value is not an input
\* of the model.)
Atoi_Lenient(s) ==
    LET ds == SelectIdx(s, IsDigit)
    IN  [n |-> DigitsValue(IF Len(ds) > 9 THEN <<>> ELSE ds, 0), err |-> NoErr]

Atoi(s) ==
    LET signed == s # <<>> /\ Head(s) \in {"+", "-"}
        ds == IF signed THEN Tail(s) ELSE s
        sig == StripZeros(ds)
    IN  IF ds = <<>> \/ \E i \in 1..Len(ds) : ~IsDigit(ds[i])
        THEN [n |-> 0, err |-> Err("strconv.Atoi: invalid syntax", s, <<>>)]
        ELSE IF Len(sig) > 19 \/ (Len(sig) = 19 /\ StrLess(MaxInt64Digits, sig))
        THEN [n |-> 0, err |-> Err("strconv.Atoi: value out of range", s, <<>>)]
        ELSE [n |-> IF signed /\ Head(s) = "-" THEN 0 - DigitsValue(sig, 0)
                    ELSE DigitsValue(sig, 0),
              err |-> NoErr]

\* strings.Fields: the maximal runs of non-space characters.
RECURSIVE Fields(_)
Fields(s) ==
    IF s = <<>> THEN <<>>
    ELSE IF Head(s) = " " THEN Fields(Tail(s))
    ELSE LET RECURSIVE WordLen(_)
             WordLen(i) == IF i > Len(s) \/ s[i] = " " THEN i - 1 ELSE WordLen(i + 1)
             n == WordLen(1)
         IN  <<SubSeq(s, 1, n)>> \o Fields(SubSeq(s, n + 1, Len(s)))

\* The connection address of IMAPSTest.RunTest.
ImapsAddress_Bare(target, port) == target \o <<":">> \o FormatInt(port)

ImapsAddress(target, port) ==
    IF Contains(target, ":")
    THEN <<"[">> \o target \o <<"]", ":">> \o FormatInt(port)
    ELSE target \o <<":">> \o FormatInt(port)

\* The tls.Config RunTest dials with.
TLSSetup_KeepName(serverName, insecure) ==
    [InsecureSkipVerify |-> insecure, ServerName |-> serverName]

TLSSetup(serverName, insecure) ==
    IF insecure THEN [InsecureSkipVerify |-> TRUE, ServerName |-> <<>>]
    ELSE [InsecureSkipVerify |-> FALSE, ServerName |-> serverName]

\* The condition under which RunTest logs in.
WantsLogin_Either(username, password) == username # <<>> \/ password # <<>>

WantsLogin(username, password) == username # <<>> /\ password # <<>>

\* A TCP port a dial can connect to.
ValidPort(n) == 0 < n /\ n < 65536

IdleIMAPS ==
    /\ ipc = "off"
    /\ itst = NoImapsTest
    /\ iport = 0
    /\ iaddress = <<>>
    /\ itls = NoTLS
    /\ ilog = <<>>
    /\ iret = Running
    /\ icalls = 0
    /\ openConns = 0

InitIMAPSVars ==
    /\ ipc = "idle"
    /\ itst = NoImapsTest
    /\ iport = 0
    /\ iaddress = <<>>
    /\ itls = NoTLS
    /\ ilog = <<>>
    /\ iret = Running
    /\ icalls = 0
    /\ openConns = 0

\* RunTest returns err.
Return(err) ==
    /\ iret' = err
    /\ ipc' = "done"

\* defer con.Close(): the connection is closed on whichever path RunTest
\* returns by ("nologin", "loginfailed", "logoutfailed", "ok").
ClosesOnReturn_OnlyOnSuccess(path) == path \in {"nologin", "ok"}

ClosesOnReturn(path) == TRUE

\* RunTest returns err with the connection dialled; log is the operations
\* issued up to the return.
ReturnConnected(path, log, err) ==
    /\ Return(err)
    /\ IF ClosesOnReturn(path)
       THEN /\ ilog' = Append(log, "close")
            /\ openConns' = openConns - 1
       ELSE /\ ilog' = log
            /\ openConns' = openConns

\* After con.Login: a failed login is returned, a successful one is followed
\* by con.Logout.
AfterLogin_AlwaysLogout(ok) == "logout"

AfterLogin(ok) == IF ok THEN "logout" ELSE "return"

\* RunTest up to the dial: the port, the address, the TLS configuration.
\* data[0] of an Input without any field is an index out of range: a panic.
ImapsRunTest ==
    /\ ipc = "idle"
    /\ icalls < MaxCalls
    /\ icalls' = icalls + 1
    /\ ilog' = <<>>
    /\ \E t \in ImapsTests :
          LET parsed == IF t.port # <<>> THEN Atoi(t.port) ELSE [n |-> 993, err |-> NoErr]
              insecure == t.tls = <<"i", "n", "s", "e", "c", "u", "r", "e">>
              data == Fields(t.input)
          IN  /\ itst' = t
              /\ IF parsed.err # NoErr
                 THEN /\ Return(parsed.err)
                      /\ iport' = parsed.n
                      /\ iaddress' = <<>>
                      /\ itls' = NoTLS
                 ELSE /\ iport' = parsed.n
                      /\ iaddress' = ImapsAddress(t.target, parsed.n)
                      /\ IF data = <<>>
                         THEN /\ ipc' = "panic"
                              /\ iret' = Running
                              /\ itls' = NoTLS
                         ELSE /\ ipc' = "dial"
                              /\ iret' = Running
                              /\ itls' = TLSSetup(data[1], insecure)
    /\ UNCHANGED openConns
    /\ UNCHANGED <<enqVars, dnsVars, flagVars>>

\* client.DialWithDialerTLS, and defer con.Close() when it succeeded.
ImapsDial ==
    /\ ipc = "dial"
    /\ \E ok \in {b \in BOOLEAN : b => ValidPort(iport)} :
          IF ok
          THEN /\ ilog' = Append(ilog, "dial:ok")
               /\ openConns' = openConns + 1
               /\ ipc' = "connected"
               /\ iret' = iret
          ELSE /\ ilog' = Append(ilog, "dial:err")
               /\ openConns' = openConns
               /\ Return(Err("dial", iaddress, <<>>))
    /\ UNCHANGED <<itst, iport, iaddress, itls, icalls>>
    /\ UNCHANGED <<enqVars, dnsVars, flagVars>>

\* The credentials test and con.Login.
ImapsLogin ==
    /\ ipc = "connected"
    /\ IF WantsLogin(itst.username, itst.password)
       THEN \E ok \in BOOLEAN :
               LET log == Append(ilog, IF ok THEN "login:ok" ELSE "login:err")
               IN  IF AfterLogin(ok) = "logout"
                   THEN /\ ilog' = log
                        /\ ipc' = "loggedin"
                        /\ UNCHANGED <<iret, openConns>>
                   ELSE ReturnConnected("loginfailed", log, Err("login", itst.username, <<>>))
       ELSE ReturnConnected("nologin", ilog, NoErr)
    /\ UNCHANGED <<itst, iport, iaddress, itls, icalls>>
    /\ UNCHANGED <<enqVars, dnsVars, flagVars>>

\* con.Logout and the return of its error or of nil.
ImapsLogout ==
    /\ ipc = "loggedin"
    /\ \E ok \in BOOLEAN :
          IF ok
          THEN ReturnConnected("ok", Append(ilog, "logout:ok"), NoErr)
          ELSE ReturnConnected("logoutfailed", Append(ilog, "logout:err"),
                               Err("logout", <<>>, <<>>))
    /\ UNCHANGED <<itst, iport, iaddress, itls, icalls>>
    /\ UNCHANGED <<enqVars, dnsVars, flagVars>>

\* The caller runs the next test: the locals of the returned call are gone.
ImapsNextCall ==
    /\ ipc = "done"
    /\ icalls < MaxCalls
    /\ ipc' = "idle"
    /\ iret' = Running
    /\ itst' = NoImapsTest
    /\ iport' = 0
    /\ iaddress' = <<>>
    /\ itls' = NoTLS
    /\ ilog' = <<>>
    /\ UNCHANGED <<icalls, openConns>>
    /\ UNCHANGED <<enqVars, dnsVars, flagVars>>

NextIMAPS == ImapsRunTest \/ ImapsDial \/ ImapsLogin \/ ImapsLogout \/ ImapsNextCall

(***************************************************************************)
(* Enqueue sub-command                                                     *)
(***************************************************************************)
MaxArgs == 3

Variants == {"part_000", "part_001"}

Unreadable == <<[text |-> "#unreadable", parses |-> FALSE]>>

Job(t) == [text |-> t, parses |-> TRUE]
BadLine == [text |-> "x", parses |-> FALSE]

FileNames == {"jobs", "broken", "missing", "-"}

\* What standard input may hold.
StdinContents == {<<>>, <<Job("a")>>, <<Job("b"), BadLine>>}

\* The files on disk: two jobs; a job, a line that does not parse, a job; a
\* file that cannot be opened.
Files(stdin) ==
    [n \in FileNames |->
        CASE n = "jobs"    -> <<Job("a"), Job("b")>>
          [] n = "broken"  -> <<Job("b"), BadLine, Job("a")>>
          [] n = "missing" -> Unreadable
          [] OTHER         -> stdin]

PushOutcomes == {"ok", "err", "err_applied"}

ExitSuccess == "ExitSuccess"
ExitFailure == "ExitFailure"

\* enqueueTest: RPush of tst.Input on the list; the call fails when redis
\* reports an error, which may be before or after the server appended.
enqueueTest_LPush(q, input, outcome) ==
    IF outcome \in {"ok", "err_applied"} THEN <<input>> \o q ELSE q

enqueueTest(q, input, outcome) ==
    IF outcome \in {"ok", "err_applied"} THEN Append(q, input) ELSE q

enqueueTestErr(outcome) == outcome # "ok"

\* Execute after Ping: a failed ping returns ExitFailure.
AfterPing_Ignore(pingErr) == "range"

AfterPing(pingErr) == IF pingErr THEN "fail" ELSE "range"

AfterParseFile_NoBreak(v, file, err) ==
    IF v = "part_000" THEN "next"
    ELSE IF err THEN "fail"
    ELSE "next"

\* Execute after ParseFile returned, by revision:
\*   part_000 prints the error and goes on with the next file;
\*   part_001 returns ExitFailure on an error and leaves the loop after "-".
AfterParseFile(v, file, err) ==
    IF v = "part_000" THEN "next"
    ELSE IF err THEN "fail"
    ELSE IF file = "-" THEN "break"
    ELSE "next"

InitEnqueueVars ==
    /\ variant \in Variants
    /\ args \in SeqsUpTo(FileNames, MaxArgs)
    /\ fs \in {Files(c) : c \in StdinContents}
    /\ epc = "start"
    /\ fileIdx = 0
    /\ lineIdx = 0
    /\ pingLog = <<>>
    /\ openLog = <<>>
    /\ fileResult = [k \in 1..Len(args) |-> "none"]
    /\ rpushLog = <<>>
    /\ queue = <<>>
    /\ exitStatus = "none"

IdleEnqueue ==
    /\ variant = "part_001"
    /\ args = <<>>
    /\ fs = [n \in FileNames |-> <<>>]
    /\ epc = "idle"
    /\ fileIdx = 0
    /\ lineIdx = 0
    /\ pingLog = <<>>
    /\ openLog = <<>>
    /\ fileResult = <<>>
    /\ rpushLog = <<>>
    /\ queue = <<>>
    /\ exitStatus = "none"

\* redis.NewClient: no network operation yet.
ExecuteNewClient ==
    /\ epc = "start"
    /\ epc' = "ping"
    /\ UNCHANGED <<variant, args, fs, fileIdx, lineIdx, pingLog, openLog,
                   fileResult, rpushLog, queue, exitStatus>>
    /\ UNCHANGED <<dnsVars, imapsVars, flagVars>>

ExecutePing ==
    /\ epc = "ping"
    /\ \E pingErr \in BOOLEAN :
          /\ pingLog' = Append(pingLog, pingErr)
          /\ IF AfterPing(pingErr) = "fail"
             THEN /\ epc' = "done"
                  /\ exitStatus' = ExitFailure
                  /\ fileIdx' = fileIdx
             ELSE /\ epc' = "range"
                  /\ exitStatus' = exitStatus
                  /\ fileIdx' = 1
    /\ UNCHANGED <<variant, args, fs, lineIdx, openLog, fileResult, rpushLog, queue>>
    /\ UNCHANGED <<dnsVars, imapsVars, flagVars>>

\* What Execute does once ParseFile has returned for args[fileIdx].
Continue(err) ==
    LET step == AfterParseFile(variant, args[fileIdx], err)
    IN  /\ fileResult' = [fileResult EXCEPT ![fileIdx] = IF err THEN "error" ELSE "ok"]
        /\ lineIdx' = 0
        /\ CASE step = "fail"  -> /\ epc' = "done"
                                  /\ exitStatus' = ExitFailure
                                  /\ fileIdx' = fileIdx
             [] step = "break" -> /\ epc' = "done"
                                  /\ exitStatus' = ExitSuccess
                                  /\ fileIdx' = fileIdx
             [] OTHER          -> /\ epc' = "range"
                                  /\ exitStatus' = exitStatus
                                  /\ fileIdx' = fileIdx + 1

\* Head of the loop over f.Args(): the call of helper.ParseFile, which opens
\* the file, or the return of ExitSuccess after the last file.
ExecuteRange ==
    /\ epc = "range"
    /\ IF fileIdx > Len(args)
       THEN /\ epc' = "done"
            /\ exitStatus' = ExitSuccess
            /\ UNCHANGED <<fileIdx, lineIdx, openLog, fileResult>>
       ELSE /\ openLog' = Append(openLog, fileIdx)
            /\ IF fs[args[fileIdx]] = Unreadable
               THEN Continue(TRUE)
               ELSE /\ epc' = "parse"
                    /\ lineIdx' = 1
                    /\ fileResult' = [fileResult EXCEPT ![fileIdx] = "running"]
                    /\ UNCHANGED <<fileIdx, exitStatus>>
    /\ UNCHANGED <<variant, args, fs, pingLog, rpushLog, queue>>
    /\ UNCHANGED <<dnsVars, imapsVars, flagVars>>

\* One line of ParseFile: end of file, a line that does not parse, or a
\* parsed test handed to the callback enqueueTest.
ParseFile ==
    /\ epc = "parse"
    /\ LET content == fs[args[fileIdx]]
       IN  IF lineIdx > Len(content)
           THEN /\ Continue(FALSE)
                /\ UNCHANGED <<rpushLog, queue>>
           ELSE IF ~content[lineIdx].parses
           THEN /\ Continue(TRUE)
                /\ UNCHANGED <<rpushLog, queue>>
           ELSE \E outcome \in PushOutcomes :
                   /\ queue' = enqueueTest(queue, content[lineIdx].text, outcome)
                   /\ rpushLog' = Append(rpushLog,
                                         [arg |-> fileIdx, line |-> lineIdx,
                                          payload |-> content[lineIdx].text,
                                          outcome |-> outcome])
                   /\ IF enqueueTestErr(outcome)
                      THEN Continue(TRUE)
                      ELSE /\ lineIdx' = lineIdx + 1
                           /\ UNCHANGED <<epc, fileIdx, fileResult, exitStatus>>
    /\ UNCHANGED <<variant, args, fs, pingLog, openLog>>
    /\ UNCHANGED <<dnsVars, imapsVars, flagVars>>

NextEnqueue == ExecuteNewClient \/ ExecutePing \/ ExecuteRange \/ ParseFile

(***************************************************************************)
(* Enqueue sub-command: flag setup (src/unnamed/part_001)                  *)
(***************************************************************************)
\* The configurable fields of enqueueCmd.
FieldNames == {"RedisDB", "RedisHost", "RedisPassword", "RedisSocket", "RedisDialTimeout"}

\* The flag each field is bound to.
FlagName(k) ==
    CASE k = "RedisDB"       -> "redis-db"
      [] k = "RedisHost"     -> "redis-host"
      [] k = "RedisPassword" -> "redis-pass"
      [] k = "RedisSocket"   -> "redis-socket"
      [] OTHER               -> "redis-timeout"

\* time.Duration: whole seconds and the nanoseconds beyond them.
Duration(sec, nsec) == [sec |-> sec, nsec |-> nsec]

\* var defaults enqueueCmd, its fields zero.
ZeroCmd ==
    [k \in FieldNames |->
        CASE k = "RedisDB"          -> 0
          [] k = "RedisDialTimeout" -> Duration(0, 0)
          [] OTHER                  -> ""]

\* The defaults SetFlags assigns before it looks for a configuration file.
BuiltinDefaults ==
    [k \in FieldNames |->
        CASE k = "RedisHost"        -> "localhost:6379"
          [] k = "RedisPassword"    -> ""
          [] k = "RedisDB"          -> 0
          [] k = "RedisSocket"      -> ""
          [] OTHER                  -> Duration(5, 0)]

\* JSON values of a configuration file; JAbsent for a key the object lacks.
JString(s) == [t |-> "string", s |-> s, n |-> 0]
JNumber(n) == [t |-> "number", s |-> "", n |-> n]
JAbsent == [t |-> "absent", s |-> "", n |-> 0]

\* What each key of the file may hold.
JsonValues(k) ==
    CASE k = "RedisDB"          -> {JAbsent, JNumber(2), JString("x")}
      [] k = "RedisHost"        -> {JAbsent, JString("r:1"), JNumber(7)}
      [] k = "RedisPassword"    -> {JAbsent, JString("s")}
      [] k = "RedisSocket"      -> {JAbsent, JString("/r")}
      [] OTHER                  -> {JAbsent, JNumber(9), JString("1s")}

\* The file OVERSEER names: unreadable, not JSON, or a JSON object.
ConfigFiles ==
    {[readable |-> FALSE, json |-> FALSE, object |-> [k \in FieldNames |-> JAbsent]],
     [readable |-> TRUE, json |-> FALSE, object |-> [k \in FieldNames |-> JAbsent]]}
    \cup {[readable |-> TRUE, json |-> TRUE, object |-> o] :
             o \in {f \in [FieldNames -> UNION {JsonValues(k) : k \in FieldNames}] :
                       \A k \in FieldNames : f[k] \in JsonValues(k)}}

\* The flags on the command line: which are given, and the value of each.
FlagValues ==
    [k \in FieldNames |->
        CASE k = "RedisDB"          -> 3
          [] k = "RedisHost"        -> "q:2"
          [] k = "RedisPassword"    -> "w"
          [] k = "RedisSocket"      -> "/t"
          [] OTHER                  -> Duration(2, 0)]

CommandLines == [given : SUBSET FieldNames, value : {FlagValues}]

\* encoding/json: whether the JSON value j fits the Go type of field k, and the
\* value stored for it (a number read into a Duration counts nanoseconds).
Fits(k, j) ==
    IF k \in {"RedisDB", "RedisDialTimeout"} THEN j.t = "number" ELSE j.t = "string"

Stored(k, j) ==
    CASE k = "RedisDB"          -> j.n
      [] k = "RedisDialTimeout" -> Duration(0, j.n)
      [] OTHER                  -> j.s

\* json.Unmarshal(cfg, &defaults): the outcomes it may have. Input that is not
\* JSON is rejected before anything is stored. A value that does not fit its
\* field is skipped and reported; the keys decoded before it are stored, those
\* after it are not guaranteed to be.
Unmarshal_Ignore(cfg, d) == {[v |-> d, err |-> ~cfg.json]}

Unmarshal(cfg, d) ==
    IF ~cfg.json THEN {[v |-> d, err |-> TRUE]}
    ELSE LET present == {k \in FieldNames : cfg.object[k].t # "absent"}
             fitting == {k \in present : Fits(k, cfg.object[k])}
             Store(S) == [k \in FieldNames |->
                             IF k \in S THEN Stored(k, cfg.object[k]) ELSE d[k]]
         IN  IF fitting = present
             THEN {[v |-> Store(present), err |-> FALSE]}
             ELSE {[v |-> Store(S), err |-> TRUE] : S \in SUBSET fitting}

IdleFlags ==
    /\ fpc = "off"
    /\ env = ""
    /\ cfgFile = [readable |-> FALSE, json |-> FALSE,
                  object |-> [k \in FieldNames |-> JAbsent]]
    /\ cmdline = [given |-> {}, value |-> FlagValues]
    /\ cmd = ZeroCmd
    /\ registered = {}
    /\ warnings = <<>>

InitFlagsVars ==
    /\ fpc = "start"
    /\ env \in {"", "overseer.json"}
    /\ cfgFile \in ConfigFiles
    /\ cmdline \in CommandLines
    /\ cmd = ZeroCmd
    /\ registered = {}
    /\ warnings = <<>>

\* SetFlags: the built-in defaults, the configuration file when OVERSEER is
\* set, and the registration of the five flags, each with its default, which
\* the flag package stores in the bound field.
SetFlags ==
    /\ fpc = "start"
    /\ \E loaded \in
            IF env = "" THEN {[v |-> BuiltinDefaults, warn |-> <<>>]}
            ELSE IF ~cfgFile.readable
            THEN {[v |-> BuiltinDefaults,
                   warn |-> <<"WARNING: Failed to read configuration-file">>]}
            ELSE {[v |-> u.v,
                   warn |-> IF u.err THEN <<"WARNING: Error loading overseer.json">>
                            ELSE <<>>] : u \in Unmarshal(cfgFile, BuiltinDefaults)} :
          /\ warnings' = warnings \o loaded.warn
          /\ cmd' = loaded.v
    /\ registered' = {FlagName(k) : k \in FieldNames}
    /\ fpc' = "registered"
    /\ UNCHANGED <<env, cfgFile, cmdline>>
    /\ UNCHANGED <<enqVars, dnsVars, imapsVars>>

\* The flag set parses the command line: a flag that is given stores its value
\* in the field it was registered with.
FlagParse ==
    /\ fpc = "registered"
    /\ \A k \in cmdline.given : FlagName(k) \in registered
    /\ cmd' = [k \in FieldNames |->
                  IF k \in cmdline.given THEN cmdline.value[k] ELSE cmd[k]]
    /\ fpc' = "parsed"
    /\ UNCHANGED <<env, cfgFile, cmdline, registered, warnings>>
    /\ UNCHANGED <<enqVars, dnsVars, imapsVars>>

NextFlags == SetFlags \/ FlagParse

(***************************************************************************)
(* Specifications: one part of the program runs, the others stay idle      *)
(***************************************************************************)
InitEnqueue == InitEnqueueVars /\ IdleDNS /\ IdleIMAPS /\ IdleFlags

SpecEnqueue == InitEnqueue /\ [][NextEnqueue]_vars

\* One RunTest call of the DNS prober.
InitDNS == InitDNSVars(1) /\ IdleEnqueue /\ IdleIMAPS /\ IdleFlags

SpecDNS == InitDNS /\ [][NextDNS]_vars

\* Two concurrent RunTest calls of the DNS prober.
InitDNSRace == InitDNSVars(2) /\ IdleEnqueue /\ IdleIMAPS /\ IdleFlags

SpecDNSRace == InitDNSRace /\ [][NextDNS]_vars

\* A sequence of RunTest calls of the IMAPS prober.
InitIMAPS == InitIMAPSVars /\ IdleEnqueue /\ IdleDNS /\ IdleFlags

SpecIMAPS == InitIMAPS /\ [][NextIMAPS]_vars

\* The flag setup of the enqueue sub-command.
InitFlags == InitFlagsVars /\ IdleEnqueue /\ IdleDNS /\ IdleIMAPS

SpecFlags == InitFlags /\ [][NextFlags]_vars

\* Either prober runs.
InitProbes == InitDNS \/ InitIMAPS

NextProbes == NextDNS \/ NextIMAPS

SpecProbes == InitProbes /\ [][NextProbes]_vars

(***************************************************************************)
(* Enqueue sub-command: properties                                         *)
(***************************************************************************)
Texts(content) == [i \in 1..Len(content) |-> content[i].text]

\* The Input strings of the jobs of a file, in file order.
JobInputs(name) ==
    IF fs[name] = Unreadable THEN <<>>
    ELSE Texts(SelectIdx(fs[name], LAMBDA l : l.parses))

\* The jobs' Input strings in argument order, then file order.
AllJobInputs == Flatten([k \in 1..Len(args) |-> JobInputs(args[k])])

\* The RPush calls issued while ParseFile ran on args[k].
PushesOf(k) == SelectIdx(rpushLog, LAMBDA r : r.arg = k)

PayloadsOf(k) == [i \in 1..Len(PushesOf(k)) |-> PushesOf(k)[i].payload]

C1_PerFile ==
    \A k \in 1..Len(args) :
        fileResult[k] = "ok" =>
            /\ Len(PushesOf(k)) = Len(fs[args[k]])
            /\ PayloadsOf(k) = Texts(fs[args[k]])
            /\ \A i \in 1..Len(PushesOf(k)) : PushesOf(k)[i].outcome = "ok"

C1_Prefix == variant = "part_001" => IsPrefix(queue, AllJobInputs)

\* C1: after a successful ping, a file whose N jobs all parse and push gets
\* exactly N appends, the i-th carrying the i-th job's Input unchanged; in the
\* Execute of part_001 the payloads appended so far are at every point a prefix
\* of the jobs' Input strings in argument order, then file order; and no step,
\* failing or not, removes or reorders what was already appended.
C1_AppendsInOrder ==
    /\ [](C1_PerFile /\ C1_Prefix)
    /\ [][IsPrefix(queue, queue')]_vars

\* A run of part_001 in which a two-job file was pushed whole and a later file
\* failed after one more append.
C1_Witness ==
    /\ variant = "part_001"
    /\ epc = "done"
    /\ Len(queue) >= 3
    /\ \E k, j \in 1..Len(args) :
          /\ k < j
          /\ fileResult[k] = "ok"
          /\ Len(fs[args[k]]) = 2
          /\ fileResult[j] = "error"

\* C2: Execute pings exactly once, before any file; after a failed ping no
\* file is opened or parsed, nothing is appended, and the exit status is
\* ExitFailure.
C2_PingFirst ==
    /\ Len(pingLog) <= 1
    /\ epc \in {"range", "parse", "done"} => Len(pingLog) = 1
    /\ (openLog # <<>> \/ rpushLog # <<>>) => pingLog = <<FALSE>>
    /\ pingLog = <<TRUE>> =>
          /\ openLog = <<>>
          /\ rpushLog = <<>>
          /\ queue = <<>>
          /\ epc = "done"
          /\ exitStatus = ExitFailure

\* A failed ping with files on the command line.
C2_Witness ==
    /\ pingLog = <<TRUE>>
    /\ epc = "done"
    /\ Len(args) >= 2
    /\ \E k \in 1..Len(args) : JobInputs(args[k]) # <<>>

\* C4: when processing file k fails, no further job of file k is pushed, and
\* every later file of the argument list is still parsed and pushed.
C4_LaterFilesIndependent ==
    \A k \in 1..Len(args) :
        fileResult[k] = "error" =>
            /\ \A i \in 1..Len(PushesOf(k)) :
                  PushesOf(k)[i].outcome # "ok" => i = Len(PushesOf(k))
            /\ epc = "done" =>
                  \A j \in (k + 1)..Len(args) :
                      /\ \E n \in 1..Len(openLog) : openLog[n] = j
                      /\ fileResult[j] \in {"ok", "error"}


(***************************************************************************)
(* DNS prober: properties                                                  *)
(***************************************************************************)
Exchanged(p) == dsent[p] # NotSent

\* C3: in every interleaving of two RunTest calls, each call's exchange sends
\* the message that call built, carrying its own lookup name and record type,
\* on the client that call built, carrying its own timeout.
C3_OwnQueryAndClient ==
    \A p \in dnsProcs :
        Exchanged(p) =>
            /\ dsent[p].msg = p
            /\ dsent[p].name = Fqdn(dtst[p].lookup)
            /\ dsent[p].qtype = StringToType(dtst[p].type)
            /\ dsent[p].client = p
            /\ dsent[p].timeout = dtst[p].timeout

SupportedRR == {"A", "AAAA", "MX", "NS", "TXT"}

Supported(answer) == SelectIdx(answer, LAMBDA e : e.rr \in SupportedRR)

\* C5: when the exchange succeeds, lookup returns the extracted answers and no
\* error for response code Success, the error "no such domain <fqdn>" and no
\* answers for NameError, and neither answers nor error for every other code;
\* a transport error of the exchange is returned unchanged by RunTest.
C5_TriState ==
    \A p \in dnsProcs :
        Exchanged(p) =>
            LET x == dresp[p]
                l == dlookup[p]
            IN  /\ (x.err = NoErr /\ x.r.rcode = "RcodeSuccess") =>
                      /\ l.err = NoErr
                      /\ Len(l.results) = Len(Supported(x.r.answer))
                      /\ l.results = Extract(x.r.answer)
                /\ (x.err = NoErr /\ x.r.rcode = "RcodeNameError") =>
                      /\ l.err = Err("no such domain", Fqdn(dtst[p].lookup), <<>>)
                      /\ l.results = <<>>
                      /\ dret[p] = l.err
                /\ (x.err = NoErr /\ x.r.rcode \notin {"RcodeSuccess", "RcodeNameError"}) =>
                      /\ l.err = NoErr
                      /\ l.results = <<>>
                /\ x.err # NoErr =>
                      /\ l.results = <<>>
                      /\ dret[p] = x.err

\* A server failure that carries records: none of them is returned.
C5_Witness ==
    \E p \in dnsProcs :
        /\ Exchanged(p)
        /\ dresp[p].err = NoErr
        /\ dresp[p].r.rcode = "RcodeServerFailure"
        /\ Len(Supported(dresp[p].r.answer)) = 2
        /\ dlookup[p] = [results |-> <<>>, err |-> NoErr]

\* C9 as claimed: with an empty expected result RunTest returns nil only when
\* the answer section of the response is empty, and a mismatch error for every
\* response that carries at least one record.
C9_EmptyResultAsClaimed ==
    \A p \in dnsProcs :
        (Exchanged(p) /\ dresp[p].err = NoErr /\ dtst[p].result = <<>>) =>
            /\ dret[p] = NoErr => dresp[p].r.answer = <<>>
            /\ dresp[p].r.answer # <<>> => dret[p].kind = "mismatch"

\* The answer sections from which nothing but the empty string is extracted:
\* no record of a supported type, or a single one whose string is empty.
YieldsEmpty(answer) ==
    \/ Supported(answer) = <<>>
    \/ /\ Len(Supported(answer)) = 1
       /\ Supported(answer)[1].rr = "TXT"
       /\ Supported(answer)[1].txt[1] = <<>>

\* C9, amended: with an empty expected result, RunTest returns nil exactly
\* when nothing but the empty string is extracted: the response code is
\* neither Success nor NameError, or it is Success and the answer section has
\* no record of the five supported types, or a single one, a TXT whose first
\* chunk is empty. NameError returns the "no such domain" error, and every
\* other Success response the mismatch error with a non-empty found string.
C9_EmptyResult ==
    \A p \in dnsProcs :
        (Exchanged(p) /\ dresp[p].err = NoErr /\ dtst[p].result = <<>>) =>
            LET r == dresp[p].r
            IN  IF r.rcode = "RcodeNameError"
                THEN dret[p].kind = "no such domain"
                ELSE IF r.rcode # "RcodeSuccess" \/ YieldsEmpty(r.answer)
                THEN dret[p] = NoErr
                ELSE /\ dret[p].kind = "mismatch"
                     /\ dret[p].s1 = <<>>
                     /\ dret[p].s2 # <<>>

\* A Success response whose only records are of an unsupported type matches
\* the empty expectation.
C9_Witness ==
    \E p \in dnsProcs :
        /\ Exchanged(p)
        /\ dresp[p].err = NoErr
        /\ dresp[p].r.rcode = "RcodeSuccess"
        /\ dtst[p].result = <<>>
        /\ dresp[p].r.answer # <<>>
        /\ Supported(dresp[p].r.answer) = <<>>
        /\ dret[p] = NoErr

(***************************************************************************)
(* IMAPS prober: properties                                                *)
(***************************************************************************)
Count(log, ops) == Len(SelectIdx(log, LAMBDA o : o \in ops))

Position(log, ops) == CHOOSE i \in 0..Len(log) :
                          /\ i # 0 => log[i] \in ops
                          /\ i = 0 => \A j \in 1..Len(log) : log[j] \notin ops
                          /\ \A j \in 1..(i - 1) : log[j] \notin ops

Connected == Count(ilog, {"dial:ok"}) = 1

BothCredentials == itst.username # <<>> /\ itst.password # <<>>

\* A port string that is no decimal integer: not an optional sign followed by
\* one or more digits.
NonNumeric(s) ==
    LET ds == IF s # <<>> /\ Head(s) \in {"+", "-"} THEN Tail(s) ELSE s
    IN  ds = <<>> \/ \E i \in 1..Len(ds) : ~IsDigit(ds[i])

\* C6: every argument error is returned before any network operation: a DNS
\* RunTest with an empty lookup, an empty type or a type outside A, AAAA, MX,
\* NS, TXT returns an error without an exchange; an IMAPS RunTest with a
\* non-empty, non-numeric port returns an error without a dial, for any target.
C6_ArgumentErrorsFirst ==
    /\ \A p \in dnsProcs :
          (/\ dpc[p] # "idle"
           /\ \/ dtst[p].lookup = <<>>
              \/ dtst[p].type \notin {<<"A">>, <<"A", "A", "A", "A">>, <<"M", "X">>,
                                      <<"N", "S">>, <<"T", "X", "T">>}) =>
              /\ ~Exchanged(p)
              /\ dpc[p] = "done" => dret[p].kind \in {"no value to lookup specified",
                                                       "no record-type to lookup",
                                                       "unsupported record to lookup"}
              /\ dpc[p] \in {"idle", "newmsg", "newclient", "setquestion", "done"}
    /\ (ipc \notin {"idle", "off"} /\ itst.port # <<>> /\ NonNumeric(itst.port)) =>
          /\ ipc = "done"
          /\ iret.kind = "strconv.Atoi: invalid syntax"
          /\ ilog = <<>>
          /\ openConns = 0

\* An IMAPS call with port 9x and an IPv6 target has returned.
C6_Witness ==
    /\ ipc = "done"
    /\ itst.port = <<"9", "x">>
    /\ itst.target = <<":", ":", "1">>
    /\ itst.username # <<>>
    /\ iret.kind = "strconv.Atoi: invalid syntax"

\* C7: on a connection, with both credentials, login is attempted exactly
\* once; a failed login is returned and no logout is issued; after a
\* successful login logout is issued exactly once before RunTest returns, and
\* RunTest returns nil only if the logout succeeded, its failure otherwise.
C7_SessionOrder ==
    (Connected /\ BothCredentials) =>
        /\ Count(ilog, {"login:ok", "login:err"}) <= 1
        /\ Count(ilog, {"logout:ok", "logout:err"}) <= 1
        /\ Count(ilog, {"logout:ok", "logout:err"}) = 1 =>
              /\ Count(ilog, {"login:ok"}) = 1
              /\ Position(ilog, {"login:ok"}) < Position(ilog, {"logout:ok", "logout:err"})
        /\ ipc = "done" =>
              /\ Count(ilog, {"login:ok", "login:err"}) = 1
              /\ Count(ilog, {"login:err"}) = 1 =>
                    /\ iret.kind = "login"
                    /\ Count(ilog, {"logout:ok", "logout:err"}) = 0
              /\ Count(ilog, {"login:ok"}) = 1 =>
                    /\ Count(ilog, {"logout:ok", "logout:err"}) = 1
                    /\ iret = NoErr <=> Count(ilog, {"logout:ok"}) = 1
                    /\ Count(ilog, {"logout:err"}) = 1 => iret.kind = "logout"

\* A call whose login succeeded and whose logout failed.
C7_Witness ==
    /\ ipc = "done"
    /\ Connected
    /\ BothCredentials
    /\ Count(ilog, {"login:ok"}) = 1
    /\ Count(ilog, {"logout:err"}) = 1
    /\ iret.kind = "logout"

\* C8: a RunTest call that acquired a connection closes it exactly once
\* before it returns, on every path; a call that ends before or at a failed
\* dial holds none; so no connection is open once the calls have returned.
C8_ConnectionReleased ==
    /\ Count(ilog, {"close"}) <= Count(ilog, {"dial:ok"})
    /\ openConns = Count(ilog, {"dial:ok"}) - Count(ilog, {"close"})
    /\ ipc \in {"done", "idle", "panic"} =>
          /\ openConns = 0
          /\ Count(ilog, {"close"}) = Count(ilog, {"dial:ok"})
          /\ Connected => ilog[Len(ilog)] = "close"

\* The second of two calls returned a login failure.
C8_Witness ==
    /\ ipc = "done"
    /\ icalls = 2
    /\ Connected
    /\ iret.kind = "login"
    /\ openConns = 0

\* C10: RunTest attempts authentication if and only if username and password
\* are both non-empty; otherwise neither login nor logout is issued and a
\* successful connection makes RunTest return nil.
C10_LoginIffBoth ==
    /\ (Count(ilog, {"login:ok", "login:err"}) > 0) => (Connected /\ BothCredentials)
    /\ (ipc = "done" /\ Connected) =>
          /\ BothCredentials <=> Count(ilog, {"login:ok", "login:err"}) = 1
          /\ ~BothCredentials =>
                /\ Count(ilog, {"login:ok", "login:err", "logout:ok", "logout:err"}) = 0
                /\ iret = NoErr

\* A connected call with a username and no password.
C10_Witness ==
    /\ ipc = "done"
    /\ Connected
    /\ itst.username # <<>>
    /\ itst.password = <<>>
    /\ iret = NoErr

(***************************************************************************)
(* Enqueue sub-command: exit status and standard input                     *)
(***************************************************************************)
\* C11: the exit status of Execute is ExitFailure whenever the ping failed or
\* the processing of a file returned an error, and ExitSuccess only when every
\* file it processed completed without error.
C11_ExitStatus ==
    epc = "done" =>
        /\ exitStatus \in {ExitSuccess, ExitFailure}
        /\ exitStatus = ExitFailure <=>
              \/ pingLog = <<TRUE>>
              \/ \E k \in 1..Len(args) : fileResult[k] = "error"

\* The index in args of the first "-" the loop reaches, 0 if there is none.
FirstStdin ==
    IF \E k \in 1..Len(args) : args[k] = "-"
    THEN CHOOSE k \in 1..Len(args) :
             args[k] = "-" /\ \A j \in 1..(k - 1) : args[j] # "-"
    ELSE 0

\* C18: in the Execute of part_001, once the argument "-" has been processed
\* without error the loop stops: no argument after it is read or pushed and
\* Execute returns ExitSuccess; the arguments before it are processed in order.
C18_StopsAfterStdin ==
    (/\ variant = "part_001"
     /\ FirstStdin # 0
     /\ fileResult[FirstStdin] = "ok") =>
        /\ epc = "done"
        /\ exitStatus = ExitSuccess
        /\ openLog = [k \in 1..FirstStdin |-> k]
        /\ \A k \in 1..(FirstStdin - 1) : fileResult[k] = "ok"
        /\ \A k \in (FirstStdin + 1)..Len(args) : fileResult[k] = "none"
        /\ \A i \in 1..Len(rpushLog) : rpushLog[i].arg <= FirstStdin
        /\ queue = Flatten([k \in 1..FirstStdin |-> JobInputs(args[k])])

\* A file of two jobs, then standard input with one job, then a file that is
\* never read.
C18_Witness ==
    /\ variant = "part_001"
    /\ epc = "done"
    /\ Len(args) = 3
    /\ args[1] = "jobs"
    /\ args[2] = "-"
    /\ args[3] # "-"
    /\ fileResult = <<"ok", "ok", "none">>
    /\ Len(queue) = 3

(***************************************************************************)
(* IMAPS prober: TLS configuration                                         *)
(***************************************************************************)
\* RunTest has built the TLS configuration of the test in itst.
Configured ==
    \/ ipc \in {"dial", "connected", "loggedin"}
    \/ ipc \in {"done", "idle"} /\ ilog # <<>>

\* The first whitespace-delimited token of a string that has one.
FirstToken(s) ==
    LET start == CHOOSE i \in 1..Len(s) :
                     s[i] # " " /\ \A j \in 1..(i - 1) : s[j] = " "
        end   == CHOOSE j \in start..Len(s) :
                     /\ \A k \in start..j : s[k] # " "
                     /\ j = Len(s) \/ s[j + 1] = " "
    IN  SubSeq(s, start, end)

\* C12: the TLS configuration RunTest dials with skips certificate validation
\* if and only if the tls argument is the literal "insecure", and then has no
\* server name; for any other tls value or none, validation is enforced and
\* the server name is the first whitespace-delimited token of the Input,
\* whatever the target.
C12_TLSConfig ==
    Configured =>
        /\ itls.InsecureSkipVerify <=>
               itst.tls = <<"i", "n", "s", "e", "c", "u", "r", "e">>
        /\ itls.InsecureSkipVerify => itls.ServerName = <<>>
        /\ ~itls.InsecureSkipVerify => itls.ServerName = FirstToken(itst.input)

\* A test with a tls argument other than "insecure", an Input that starts with
\* a space, and a target that differs from the Input's first token.
C12_Witness ==
    /\ ipc = "connected"
    /\ itst.tls = <<"x">>
    /\ itst.input = <<" ", "m">>
    /\ itst.target = <<":", ":", "1">>
    /\ itls = [InsecureSkipVerify |-> FALSE, ServerName |-> <<"m">>]

\* C19: RunTest ends every call by returning an error or nil, whatever the
\* Input of the test: no call ends in a run-time panic, and a call never stays
\* without a return value once it has left RunTest.
C19_AlwaysReturns ==
    /\ ipc # "panic"
    /\ ipc = "done" => iret # Running

(***************************************************************************)
(* Connection addresses of both probers                                    *)
(***************************************************************************)
\* A target in brackets when it holds a colon, as it is otherwise.
Bracketed(t) ==
    IF \E i \in 1..Len(t) : t[i] = ":" THEN <<"[">> \o t \o <<"]">> ELSE t

\* The decimal text of the port RunTest connects to, for a port argument that
\* is absent or a decimal integer without leading zeros.
PortText(p) ==
    IF p = <<>> THEN <<"9", "9", "3">>
    ELSE IF Head(p) = "+" THEN Tail(p)
    ELSE p

\* C14: the address either prober connects to is "[" target "]:" port when the
\* target contains a colon and target ":" port otherwise, a zone id staying
\* inside the brackets; the port is 53 for DNS and, for IMAPS, the port
\* argument, or 993 when that is absent or empty.
C14_Address ==
    /\ \A p \in dnsProcs :
          Exchanged(p) =>
              dsent[p].address = Bracketed(dtst[p].target) \o <<":", "5", "3">>
    /\ Configured =>
          iaddress = Bracketed(itst.target) \o <<":">> \o PortText(itst.port)

\* IMAPS dials a target with a zone id on an explicit port.
C14_Witness ==
    /\ ipc = "connected"
    /\ itst.target = <<":", ":", "1", "%", "e">>
    /\ itst.port = <<"1", "4", "3">>
    /\ iaddress = <<"[", ":", ":", "1", "%", "e", "]", ":", "1", "4", "3">>

(***************************************************************************)
(* DNS prober: the comparison                                              *)
(***************************************************************************)
\* The rearrangements of a sequence.
Rearrangements(s) ==
    {[i \in 1..Len(s) |-> s[f[i]]] :
        f \in {g \in [1..Len(s) -> 1..Len(s)] :
                  \A i, j \in 1..Len(s) : g[i] = g[j] => i = j}}

\* ss in lexicographic order.
Ordered(ss) == \A i \in 1..(Len(ss) - 1) : ~StrLess(ss[i + 1], ss[i])

\* The extracted strings of an answer section, in lexicographic order and
\* joined with commas.
Normalized(answer) ==
    LET t == CHOOSE u \in Rearrangements(Extract(answer)) : Ordered(u)
    IN  Join(t, <<",">>)

\* C13: for a Success response RunTest returns nil exactly when the extracted
\* strings, sorted lexicographically and joined with commas, equal `result`,
\* and otherwise the mismatch error naming `result` and the found string; the
\* outcome is the same for every order of the answer records.
C13_OrderIndependent ==
    \A p \in dnsProcs :
        (Exchanged(p) /\ dresp[p].err = NoErr /\ dresp[p].r.rcode = "RcodeSuccess") =>
            LET answer == dresp[p].r.answer
                result == dtst[p].result
            IN  /\ dret[p] = NoErr <=> Normalized(answer) = result
                /\ dret[p] # NoErr =>
                      dret[p] = Err("mismatch", result, Normalized(answer))
                /\ \A a \in Rearrangements(answer) :
                      RunTestReturn(result,
                          LookupReturn(dtst[p].lookup,
                              LocalQueryReturn([err |-> NoErr,
                                                r |-> [rcode |-> "RcodeSuccess",
                                                       answer |-> a]]))) = dret[p]

\* The name server before the mail exchanger in the answer, the mail exchanger
\* first in the expected result.
C13_Witness ==
    \E p \in dnsProcs :
        /\ Exchanged(p)
        /\ dresp[p].err = NoErr
        /\ dresp[p].r.rcode = "RcodeSuccess"
        /\ Len(dresp[p].r.answer) = 2
        /\ dresp[p].r.answer[1].rr = "NS"
        /\ dresp[p].r.answer[2].rr = "MX"
        /\ dtst[p].result = <<"1", "0", " ", "m", ".", ",", "n", ".">>
        /\ dret[p] = NoErr

\* C17: when the server answers with a response code other than Success or
\* NameError, RunTest treats the answer set as empty whatever records the
\* response carries: it returns nil if and only if `result` is the empty
\* string, and otherwise the mismatch error with an empty found string; no
\* other error is returned.
C17_OtherRcodeIsEmpty ==
    \A p \in dnsProcs :
        (/\ Exchanged(p)
         /\ dresp[p].err = NoErr
         /\ dresp[p].r.rcode \notin {"RcodeSuccess", "RcodeNameError"}) =>
            IF dtst[p].result = <<>>
            THEN dret[p] = NoErr
            ELSE dret[p] = Err("mismatch", dtst[p].result, <<>>)

\* A refused query whose response carries an address record, with that address
\* expected: the mismatch error with nothing found.
C17_Witness ==
    \E p \in dnsProcs :
        /\ Exchanged(p)
        /\ dresp[p].err = NoErr
        /\ dresp[p].r.rcode = "RcodeRefused"
        /\ Len(dresp[p].r.answer) = 1
        /\ dresp[p].r.answer[1].rr = "A"
        /\ dtst[p].result = <<"1", ".", "2", ".", "3", ".", "4">>
        /\ dret[p] = Err("mismatch", dtst[p].result, <<>>)

(***************************************************************************)
(* DNS prober: instances                                                   *)
(***************************************************************************)
\* The instance run by goroutine p is inside lookup and has yet to read the
\* query message, respectively the client.
ReadsMsg(p) == dpc[p] \in {"newclient", "setquestion", "loadclient", "exchange"}
ReadsClient(p) == dpc[p] \in {"setquestion", "loadclient"}

\* C15: the probe instances the factory returns are independent: while the
\* RunTest of one instance is under way, a step of the RunTest of another
\* instance changes neither the query message nor the client the first one is
\* about to use.
C15_IndependentInstances ==
    [][\A p \in dnsProcs :
          dpc'[p] = dpc[p] =>
              /\ ReadsMsg(p) => localm' = localm /\ msgs'[localm] = msgs[localm]
              /\ ReadsClient(p) => localc' = localc /\ clients'[localc] = clients[localc]]_vars

(***************************************************************************)
(* Enqueue sub-command: layered configuration                              *)
(***************************************************************************)
\* SetFlags read a configuration file and decoded it without complaint.
FileLoaded == env # "" /\ cfgFile.readable /\ cfgFile.json

\* The file holds a value of the right JSON type for field k.
FileSupplies(k) ==
    /\ cfgFile.object[k].t # "absent"
    /\ cfgFile.object[k].t = (IF k \in {"RedisDB", "RedisDialTimeout"}
                              THEN "number" ELSE "string")

\* The file holds a value of the wrong JSON type for some field.
FileMistyped ==
    \E k \in FieldNames : cfgFile.object[k].t # "absent" /\ ~FileSupplies(k)

FileValue(k) ==
    IF k = "RedisDB" THEN cfgFile.object[k].n
    ELSE IF k = "RedisDialTimeout" THEN [sec |-> 0, nsec |-> cfgFile.object[k].n]
    ELSE cfgFile.object[k].s

Builtin(k) ==
    IF k = "RedisHost" THEN "localhost:6379"
    ELSE IF k = "RedisDB" THEN 0
    ELSE IF k = "RedisDialTimeout" THEN [sec |-> 5, nsec |-> 0]
    ELSE ""

\* C16: once the command line is parsed, each of host, socket, password,
\* database and timeout has the value of its flag if the flag was given,
\* otherwise the value the configuration file supplies for it if a file was
\* loaded, otherwise the built-in default (localhost:6379, no socket, no
\* password, database 0, 5s). A file that cannot be read or is not JSON leaves
\* the built-in defaults and prints one warning; a file with a value of the
\* wrong type prints one warning and each other value it supplies is either
\* taken or left at its default. SetFlags registers all five flags whatever
\* happened to the file.
C16_LayeredConfig ==
    /\ fpc \in {"registered", "parsed"} =>
          /\ registered = {"redis-db", "redis-host", "redis-pass", "redis-socket",
                           "redis-timeout"}
          /\ Len(warnings) = (IF env # "" /\ (~FileLoaded \/ FileMistyped) THEN 1 ELSE 0)
    /\ fpc = "parsed" =>
          \A k \in FieldNames :
              IF k \in cmdline.given THEN cmd[k] = cmdline.value[k]
              ELSE IF ~FileLoaded \/ ~FileSupplies(k) THEN cmd[k] = Builtin(k)
              ELSE IF ~FileMistyped THEN cmd[k] = FileValue(k)
              ELSE cmd[k] = FileValue(k) \/ cmd[k] = Builtin(k)

\* All three layers at once: the host from its flag although the file names
\* one, the database from the file, the timeout from the built-in defaults.
C16_Witness ==
    /\ fpc = "parsed"
    /\ env # ""
    /\ cmdline.given = {"RedisHost"}
    /\ cfgFile.object["RedisHost"].s = "r:1"
    /\ cfgFile.object["RedisDB"].n = 2
    /\ cfgFile.object["RedisDialTimeout"].t = "absent"
    /\ warnings = <<>>
    /\ cmd["RedisHost"] = "q:2"
    /\ cmd["RedisDB"] = 2
    /\ cmd["RedisDialTimeout"] = [sec |-> 5, nsec |-> 0]

====
